---- MODULE Spec2Model ----
(***************************************************************************)
(* A model of vienna/vienna.py: the wrapper around the ViennaRNA binding   *)
(* (RNA.fold_compound, mfe, pf, mean_bp_distance, bpp) and the RNAinverse  *)
(* executable.  The engine is an external collaborator: every value it     *)
(* returns and every exception it raises is a nondeterministic input.      *)
(*                                                                         *)
(* Strings are sequences of one-character strings.  Energies and ensemble  *)
(* statistics are integers (tenths), probabilities are percentages.        *)
(* A line of the RNAinverse output is the sequence of its whitespace-      *)
(* separated tokens, so a blank or whitespace-only line is <<>>.           *)
(***************************************************************************)
EXTENDS Integers, Sequences, FiniteSets, TLC

\* ------------------------------------------------------------ bounds ----
MaxLen == 3
MaxLines == 3
MaxSol == 2

\* ------------------------------------------------------ value domains ----
Sep == "&"
Nucleotides == {"G"}
StructChars == {"(", "."}
Energies == {-54, 0}
EnsValues == {16}
Probs == {0, 50, 100}
EngineExceptions == {"AttributeError", "TypeError", "RuntimeError"}
SeqTokens == {"GC", "AU"}
Stderrs == {"", "bad input"}
ProcExceptions == {"none", "CalledProcessError", "OSError"}
NSols == (-1)..MaxSol

\* ------------------------------------------------------------ helpers ----
Min(a, b) == IF a < b THEN a ELSE b

Range(s) == {s[k] : k \in DOMAIN s}

SeqsUpTo(S, n) == UNION {[1..k -> S] : k \in 0..n}

\* Python slices s[:k] and s[k:] for k >= 0 (an index past the end is clamped)
Take(s, k) == SubSeq(s, 1, Min(k, Len(s)))

Drop(s, k) == SubSeq(s, Min(k, Len(s)) + 1, Len(s))

Contains(s, c) == \E k \in DOMAIN s : s[k] = c

IsSep(c) == c = Sep

NotSep(c) == c # Sep

\* seq.split("&", 1)[0] for a seq that contains "&"
split_first(seq) ==
    LET k == CHOOSE i \in DOMAIN seq :
                 seq[i] = Sep /\ \A j \in 1..(i - 1) : seq[j] # Sep
    IN  SubSeq(seq, 1, k - 1)

\* number of nucleotides of an engine input: the length of the structure the
\* engine returns for it
NucleotideCount(seq) == Len(SelectSeq(seq, NotSep))

Structures(n) == [1..n -> StructChars]

UpperPairs(n) == {p \in (0..(n - 1)) \X (0..(n - 1)) : p[1] < p[2]}

\* --------------------------------------------------------- exceptions ----
ExcInvalidInput == "ValueError"
ExcNotFound == "RuntimeError"
ExcFailed == "RuntimeError"
ExcOther == "RuntimeError"

MsgEmpty == "Must supply a sequence longer than 0"
MsgNoSep == "Cofold requires sequences separated by '&'"
MsgNotFound == "RNAinverse command-line tool not available in PATH"
MsgFailed == "RNAinverse failed: "
MsgError == "Error running RNAinverse: "
MsgEngine == "raised by the engine"

\* an operation's outcome: what it returned or raised, and the engine calls it
\* made on the way
Raise(exc, msg, detail, calls) ==
    [status |-> "raise", exc |-> exc, msg |-> msg, detail |-> detail,
     value |-> <<>>, calls |-> calls]

Return(value, calls) ==
    [status |-> "return", exc |-> "none", msg |-> "", detail |-> "",
     value |-> value, calls |-> calls]

\* ------------------------------------------------------- result model ----
FoldResults(dot_bracket, mfe, ens_defect, bp_probs) ==
    [dot_bracket |-> dot_bracket, mfe |-> mfe, ens_defect |-> ens_defect,
     bp_probs |-> bp_probs]

SeqScore(seq, score) == [seq |-> seq, score |-> score]

\* zip(seqs, scores)
InverseResults(seqs, scores) ==
    [k \in 1..Min(Len(seqs), Len(scores)) |-> SeqScore(seqs[k], scores[k])]

\* ------------------------------------------------------ fold / cofold ----
\* what the engine hands back to one fold or cofold call
NoEns == [exc |-> "none", val |-> 0]

EnsOutcomes ==
    [exc : {"none"}, val : EnsValues] \cup [exc : EngineExceptions, val : {0}]

EngineFold(n, withBpp) ==
    [structure : Structures(n), energy : Energies, ens : EnsOutcomes,
     bpp : IF withBpp THEN [UpperPairs(n) -> Probs] ELSE {<<>>}]

NoEngine == [structure |-> <<>>, energy |-> 0, ens |-> NoEns, bpp |-> <<>>]

\* the fallback with "except AttributeError" alone
ensemble_diversity_attribute_only(ens) ==
    IF ens.exc = "none" THEN [exc |-> "none", val |-> ens.val]
    ELSE IF ens.exc = "AttributeError"
         THEN [exc |-> "none", val |-> 0]
         ELSE [exc |-> ens.exc, val |-> 0]

\* try: fc.mean_bp_distance() except (AttributeError, TypeError): 0.0
\* (the same text in fold and in cofold, lines 162-165)
ensemble_diversity(ens) ==
    IF ens.exc = "none" THEN [exc |-> "none", val |-> ens.val]
    ELSE IF ens.exc \in {"AttributeError", "TypeError"}
         THEN [exc |-> "none", val |-> 0]
         ELSE [exc |-> ens.exc, val |-> 0]

\* the inner loop with "if prob >= 0.0"
RECURSIVE bp_probs_row_keeps_zero(_, _, _, _)
bp_probs_row_keeps_zero(bpp, i, j, n) ==
    IF j >= n THEN <<>>
    ELSE << <<i + 1, j + 1, bpp[<<i, j>>]>> >>
         \o bp_probs_row_keeps_zero(bpp, i, j + 1, n)

\* the inner loop: for j in range(j, n), at row i
RECURSIVE bp_probs_row(_, _, _, _)
bp_probs_row(bpp, i, j, n) ==
    IF j >= n THEN <<>>
    ELSE (IF bpp[<<i, j>>] > 0
          THEN << <<i + 1, j + 1, bpp[<<i, j>>]>> >>
          ELSE <<>>) \o bp_probs_row(bpp, i, j + 1, n)

\* the outer loop: for i in range(i, n)
RECURSIVE bp_probs_list(_, _, _)
bp_probs_list(bpp, i, n) ==
    IF i >= n THEN <<>>
    ELSE bp_probs_row(bpp, i, i + 1, n) \o bp_probs_list(bpp, i + 1, n)

\* fold without the test of len(seq)
fold_unchecked(seq, bp_probs, eng) ==
    LET calls == <<"fold_compound", "mfe", "pf", "mean_bp_distance">>
        ens == ensemble_diversity(eng.ens)
    IN  IF ens.exc # "none" THEN Raise(ens.exc, MsgEngine, "", calls)
        ELSE IF bp_probs
             THEN Return(FoldResults(eng.structure, eng.energy, ens.val,
                                     bp_probs_list(eng.bpp, 0, Len(seq))),
                         Append(calls, "bpp"))
             ELSE Return(FoldResults(eng.structure, eng.energy, ens.val, <<>>),
                         calls)

fold(seq, bp_probs, eng) ==
    IF Len(seq) = 0 THEN Raise(ExcInvalidInput, MsgEmpty, "", <<>>)
    ELSE LET calls == <<"fold_compound", "mfe", "pf", "mean_bp_distance">>
             ens == ensemble_diversity(eng.ens)
         IN  IF ens.exc # "none" THEN Raise(ens.exc, MsgEngine, "", calls)
             ELSE IF bp_probs
                  THEN Return(FoldResults(eng.structure, eng.energy, ens.val,
                                          bp_probs_list(eng.bpp, 0, Len(seq))),
                              Append(calls, "bpp"))
                  ELSE Return(FoldResults(eng.structure, eng.energy, ens.val,
                                          <<>>), calls)

\* the separator put one place too far: structure[: len(seq1) + 1] + "&" + ...
insert_separator_off_by_one(structure, seq1) ==
    Take(structure, Len(seq1) + 1) \o <<Sep>> \o Drop(structure, Len(seq1) + 1)

\* structure[: len(seq1)] + "&" + structure[len(seq1) :]
insert_separator(structure, seq1) ==
    Take(structure, Len(seq1)) \o <<Sep>> \o Drop(structure, Len(seq1))

cofold(seq, eng) ==
    IF Len(seq) = 0 THEN Raise(ExcInvalidInput, MsgEmpty, "", <<>>)
    ELSE IF ~Contains(seq, Sep) THEN Raise(ExcInvalidInput, MsgNoSep, "", <<>>)
    ELSE LET seq1 == split_first(seq)
             calls == <<"fold_compound", "mfe", "pf", "mean_bp_distance">>
             structure == insert_separator(eng.structure, seq1)
             ens == ensemble_diversity(eng.ens)
         IN  IF ens.exc # "none" THEN Raise(ens.exc, MsgEngine, "", calls)
             ELSE Return(FoldResults(structure, eng.energy, ens.val, <<>>),
                         calls)

folded_structure(seq, eng) ==
    LET fold_result == fold(seq, FALSE, eng)
    IN  IF fold_result.status = "raise" THEN fold_result
        ELSE Return(fold_result.value.dot_bracket, fold_result.calls)

does_sequence_fold_to(seq, target_structure, eng) ==
    LET actual_structure == folded_structure(seq, eng)
    IN  IF actual_structure.status = "raise" THEN actual_structure
        ELSE Return(actual_structure.value = target_structure,
                    actual_structure.calls)

\* ------------------------------------------------------- inverse_fold ----
\* the lines RNAinverse can print, already split into tokens
Lines ==
    {<<>>} \cup {<<s>> : s \in SeqTokens}
           \cup {<<s, "5">> : s \in SeqTokens}
           \cup {<<s, "5", "d=", "2">> : s \in SeqTokens}

Stdouts == SeqsUpTo(Lines, MaxLines)

\* what subprocess.run does: returns, or raises CalledProcessError on a non-zero
\* exit (check=True), or raises something else (the executable is gone again)
\* (the code reads stdout on success only and stderr on a non-zero exit only)
ProcOutcomes ==
    [exc : {"none"}, stdout : Stdouts, stderr : {""}]
        \cup [exc : {"CalledProcessError"}, stdout : SeqsUpTo(Lines, 1),
              stderr : Stderrs]
        \cup [exc : ProcExceptions \ {"none", "CalledProcessError"},
              stdout : {<<>>}, stderr : {""}]

NoProc == [exc |-> "none", stdout |-> <<>>, stderr |-> ""]

\* what folding one candidate does: RNA.fold_compound(seq, md).mfe()
MfeOutcomes ==
    [exc : {"none"}, val : Energies] \cup [exc : {"RuntimeError"}, val : {0}]

\* str.strip(): leading and trailing blank lines go
RECURSIVE lstrip(_)
lstrip(ls) ==
    IF ls # <<>> /\ Head(ls) = <<>> THEN lstrip(Tail(ls)) ELSE ls

RECURSIVE rstrip(_)
rstrip(ls) ==
    IF ls # <<>> /\ ls[Len(ls)] = <<>>
    THEN rstrip(SubSeq(ls, 1, Len(ls) - 1)) ELSE ls

\* result.stdout.strip().split("\n"): splitting the empty string gives [""]
stdout_lines(stdout) ==
    LET stripped == rstrip(lstrip(stdout))
    IN  IF stripped = <<>> THEN << <<>> >> ELSE stripped

\* inverse_fold without the raise after the probe
inverse_start_no_raise(present, proc) ==
    IF proc.exc = "CalledProcessError"
    THEN Raise(ExcFailed, MsgFailed, proc.stderr, <<"RNAinverse">>)
    ELSE IF proc.exc # "none"
         THEN Raise(ExcOther, MsgError, proc.exc, <<"RNAinverse">>)
    ELSE Return(stdout_lines(proc.stdout), <<"RNAinverse">>)

\* subprocess.run with check=False: a non-zero exit goes unnoticed
inverse_start_unchecked_exit(present, proc) ==
    IF ~present THEN Raise(ExcNotFound, MsgNotFound, "", <<>>)
    ELSE IF proc.exc \notin {"none", "CalledProcessError"}
         THEN Raise(ExcOther, MsgError, proc.exc, <<"RNAinverse">>)
    ELSE Return(stdout_lines(proc.stdout), <<"RNAinverse">>)

\* from the probe up to the start of the loop over the lines
inverse_start(present, proc) ==
    IF ~present THEN Raise(ExcNotFound, MsgNotFound, "", <<>>)
    ELSE IF proc.exc = "CalledProcessError"
         THEN Raise(ExcFailed, MsgFailed, proc.stderr, <<"RNAinverse">>)
    ELSE IF proc.exc # "none"
         THEN Raise(ExcOther, MsgError, proc.exc, <<"RNAinverse">>)
    ELSE Return(stdout_lines(proc.stdout), <<"RNAinverse">>)

\* the loop body without "if len(seqs) >= n_sol: break"
collect_no_break(line, seqs, scores, n_sol, mfe) ==
    IF Len(line) = 0
    THEN [next |-> "continue", seqs |-> seqs, scores |-> scores, calls |-> <<>>]
    ELSE LET seq == line[1] IN
         IF seq \in Range(seqs)
         THEN [next |-> "continue", seqs |-> seqs, scores |-> scores,
               calls |-> <<>>]
         ELSE IF mfe.exc # "none"
         THEN [next |-> "raise", seqs |-> Append(seqs, seq), scores |-> scores,
               calls |-> <<"fold_compound", "mfe">>]
         ELSE [next |-> "continue",
               seqs |-> Append(seqs, seq), scores |-> Append(scores, mfe.val),
               calls |-> <<"fold_compound", "mfe">>]

\* the loop body with "if len(parts) != 2: continue"
collect_two_fields(line, seqs, scores, n_sol, mfe) ==
    IF Len(line) # 2
    THEN [next |-> "continue", seqs |-> seqs, scores |-> scores, calls |-> <<>>]
    ELSE LET seq == line[1] IN
         IF seq \in Range(seqs)
         THEN [next |-> "continue", seqs |-> seqs, scores |-> scores,
               calls |-> <<>>]
         ELSE IF mfe.exc # "none"
         THEN [next |-> "raise", seqs |-> Append(seqs, seq), scores |-> scores,
               calls |-> <<"fold_compound", "mfe">>]
         ELSE [next |-> IF Len(seqs) + 1 >= n_sol THEN "break" ELSE "continue",
               seqs |-> Append(seqs, seq), scores |-> Append(scores, mfe.val),
               calls |-> <<"fold_compound", "mfe">>]

\* one pass of the loop body on one line: next is "continue", "break" or "raise"
collect(line, seqs, scores, n_sol, mfe) ==
    IF Len(line) = 0
    THEN [next |-> "continue", seqs |-> seqs, scores |-> scores, calls |-> <<>>]
    ELSE LET seq == line[1] IN
         IF seq \in Range(seqs)
         THEN [next |-> "continue", seqs |-> seqs, scores |-> scores,
               calls |-> <<>>]
         ELSE IF mfe.exc # "none"
         THEN [next |-> "raise", seqs |-> Append(seqs, seq), scores |-> scores,
               calls |-> <<"fold_compound", "mfe">>]
         ELSE [next |-> IF Len(seqs) + 1 >= n_sol THEN "break" ELSE "continue",
               seqs |-> Append(seqs, seq), scores |-> Append(scores, mfe.val),
               calls |-> <<"fold_compound", "mfe">>]

\* -------------------------------------------------------------- state ----
VARIABLES
    pc,             \* "idle", "inverse" (inside inverse_fold's loop) or "done"
    op,             \* the operation called last
    args,           \* its arguments
    engine,         \* what the engine and the RNAinverse process answered
    result,         \* what the operation returned or raised
    engineCalls,    \* the engine calls and process runs it made, in order
    inPath,         \* is the RNAinverse executable in PATH
    notFoundSeen,   \* some inverse_fold call has failed to locate it
    priorNotFound,  \* notFoundSeen as it was when the last call started
    probed,         \* shutil.which calls of the last operation
    lines,          \* inverse_fold: the lines of the output
    examined,       \* inverse_fold: how many of them the loop has taken
    seqs,           \* inverse_fold: the local list seqs
    scores          \* inverse_fold: the local list scores

vars == <<pc, op, args, engine, result, engineCalls, inPath, notFoundSeen,
          priorNotFound, probed, lines, examined, seqs, scores>>

NoArgs == [seq |-> <<>>, bp_probs |-> FALSE, target |-> <<>>, n_sol |-> 0]

NoResult ==
    [status |-> "none", exc |-> "none", msg |-> "", detail |-> "",
     value |-> <<>>]

Outcome(r) ==
    [status |-> r.status, exc |-> r.exc, msg |-> r.msg, detail |-> r.detail,
     value |-> r.value]

FoldSeqs == SeqsUpTo(Nucleotides, MaxLen)

CofoldSeqs == SeqsUpTo(Nucleotides \cup {Sep}, MaxLen + 1)

Targets == SeqsUpTo(StructChars, MaxLen)

Init ==
    /\ pc = "idle"
    /\ op = "none"
    /\ args = NoArgs
    /\ engine = [fold |-> NoEngine, proc |-> NoProc]
    /\ result = NoResult
    /\ engineCalls = <<>>
    /\ inPath \in BOOLEAN
    /\ notFoundSeen = FALSE
    /\ priorNotFound = FALSE
    /\ probed = 0
    /\ lines = <<>>
    /\ examined = 0
    /\ seqs = <<>>
    /\ scores = <<>>

\* an operation that neither probes for the executable nor runs the loop
Finish(name, a, eng, r) ==
    /\ pc' = "done"
    /\ op' = name
    /\ args' = a
    /\ engine' = [fold |-> IF r.calls = <<>> THEN NoEngine ELSE eng,
                  proc |-> NoProc]
    /\ result' = Outcome(r)
    /\ engineCalls' = r.calls
    /\ UNCHANGED <<inPath, notFoundSeen, priorNotFound, probed, lines,
                   examined, seqs, scores>>

CallFold ==
    /\ pc = "idle"
    /\ \E seq \in FoldSeqs, bp_probs \in BOOLEAN :
         \E eng \in EngineFold(Len(seq), bp_probs) :
            Finish("fold", [NoArgs EXCEPT !.seq = seq, !.bp_probs = bp_probs],
                   eng, fold(seq, bp_probs, eng))

CallCofold ==
    /\ pc = "idle"
    /\ \E seq \in CofoldSeqs :
         \E eng \in EngineFold(NucleotideCount(seq), FALSE) :
            Finish("cofold", [NoArgs EXCEPT !.seq = seq], eng, cofold(seq, eng))

CallFoldedStructure ==
    /\ pc = "idle"
    /\ \E seq \in FoldSeqs :
         \E eng \in EngineFold(Len(seq), FALSE) :
            Finish("folded_structure", [NoArgs EXCEPT !.seq = seq], eng,
                   folded_structure(seq, eng))

CallDoesSequenceFoldTo ==
    /\ pc = "idle"
    /\ \E seq \in FoldSeqs, target \in Targets :
         \E eng \in EngineFold(Len(seq), FALSE) :
            Finish("does_sequence_fold_to",
                   [NoArgs EXCEPT !.seq = seq, !.target = target], eng,
                   does_sequence_fold_to(seq, target, eng))

\* inverse_fold from its first line to the start of the loop (or to the raise)
CallInverseFold ==
    /\ pc = "idle"
    /\ \E n_sol \in NSols, proc \in ProcOutcomes :
         LET r == inverse_start(inPath, proc) IN
         /\ op' = "inverse_fold"
         /\ args' = [NoArgs EXCEPT !.n_sol = n_sol]
         /\ engine' = [fold |-> NoEngine,
                       proc |-> IF r.calls = <<>> THEN NoProc ELSE proc]
         /\ engineCalls' = r.calls
         /\ probed' = 1
         /\ priorNotFound' = notFoundSeen
         /\ notFoundSeen' = (notFoundSeen \/ ~inPath)
         /\ seqs' = <<>>
         /\ scores' = <<>>
         /\ examined' = 0
         /\ IF r.status = "raise"
            THEN /\ pc' = "done"
                 /\ result' = Outcome(r)
                 /\ lines' = <<>>
            ELSE /\ pc' = "inverse"
                 /\ result' = NoResult
                 /\ lines' = r.value
         /\ UNCHANGED inPath

\* one iteration of "for line in lines", and what follows a break or a raise
InverseLoopStep ==
    /\ pc = "inverse"
    /\ examined < Len(lines)
    /\ \E mfe \in MfeOutcomes :
         LET c == collect(lines[examined + 1], seqs, scores, args.n_sol, mfe) IN
         /\ examined' = examined + 1
         /\ seqs' = c.seqs
         /\ scores' = c.scores
         /\ engineCalls' = engineCalls \o c.calls
         /\ pc' = IF c.next = "continue" THEN "inverse" ELSE "done"
         /\ result' = CASE c.next = "continue" -> result
                        [] c.next = "break" ->
                             Outcome(Return(InverseResults(c.seqs, c.scores), <<>>))
                        [] OTHER ->
                             Outcome(Raise(ExcOther, MsgError, mfe.exc, <<>>))
    /\ UNCHANGED <<op, args, engine, inPath, notFoundSeen, priorNotFound,
                   probed, lines>>

\* the loop ran out of lines: return InverseResults(seqs, scores)
InverseLoopEnd ==
    /\ pc = "inverse"
    /\ examined = Len(lines)
    /\ pc' = "done"
    /\ result' = Outcome(Return(InverseResults(seqs, scores), <<>>))
    /\ UNCHANGED <<op, args, engine, engineCalls, inPath, notFoundSeen,
                   priorNotFound, probed, lines, examined, seqs, scores>>

\* the caller has the result; the process is ready for the next call
TakeResult ==
    /\ pc = "done"
    /\ pc' = "idle"
    /\ op' = "none"
    /\ args' = NoArgs
    /\ engine' = [fold |-> NoEngine, proc |-> NoProc]
    /\ result' = NoResult
    /\ engineCalls' = <<>>
    /\ priorNotFound' = FALSE
    /\ probed' = 0
    /\ lines' = <<>>
    /\ examined' = 0
    /\ seqs' = <<>>
    /\ scores' = <<>>
    /\ UNCHANGED <<inPath, notFoundSeen>>

\* between two calls the executable is installed or removed
EnvChange ==
    /\ pc = "idle"
    /\ inPath' = ~inPath
    /\ UNCHANGED <<pc, op, args, engine, result, engineCalls, notFoundSeen,
                   priorNotFound, probed, lines, examined, seqs, scores>>

Next ==
    \/ CallFold
    \/ CallCofold
    \/ CallFoldedStructure
    \/ CallDoesSequenceFoldTo
    \/ CallInverseFold
    \/ InverseLoopStep
    \/ InverseLoopEnd
    \/ TakeResult
    \/ EnvChange

Spec == Init /\ [][Next]_vars

\* ============================================================ claims ====
Returned(name) == pc = "done" /\ op = name /\ result.status = "return"

\* the first tokens of the non-blank lines, in order
RECURSIVE Candidates(_)
Candidates(ls) ==
    IF ls = <<>> THEN <<>>
    ELSE (IF Head(ls) = <<>> THEN <<>> ELSE <<Head(ls)[1]>>)
         \o Candidates(Tail(ls))

\* a sequence without the later occurrences of its elements
RECURSIVE FirstOccurrences(_)
FirstOccurrences(cs) ==
    IF cs = <<>> THEN <<>>
    ELSE LET front == FirstOccurrences(SubSeq(cs, 1, Len(cs) - 1))
             last == cs[Len(cs)]
         IN  IF last \in Range(front) THEN front ELSE Append(front, last)

ResultSeqs == [k \in DOMAIN result.value |-> result.value[k].seq]

\* C1: whatever n_sol is (0 and negative values included), the InverseResults
\* that inverse_fold returns has at most n_sol entries and no sequence twice.
C1_AtMostNSolNoDuplicates ==
    Returned("inverse_fold") =>
        /\ Len(result.value) <= args.n_sol
        /\ \A a, b \in DOMAIN result.value :
               result.value[a].seq = result.value[b].seq => a = b

\* C2: the dot_bracket cofold returns is the engine's raw structure with one
\* "&" inserted at index len(seq1): the raw characters before and after it are
\* unchanged and in order, and removing the "&" gives the raw structure back.
C2_SeparatorReinserted ==
    Returned("cofold") =>
        LET db == result.value.dot_bracket
            raw == engine.fold.structure
            k == (CHOOSE i \in DOMAIN args.seq :
                     /\ args.seq[i] = "&"
                     /\ \A j \in 1..(i - 1) : args.seq[j] # "&") - 1
        IN  /\ Len(db) = Len(raw) + 1
            /\ db[k + 1] = "&"
            /\ \A i \in 1..k : db[i] = raw[i]
            /\ \A i \in (k + 1)..Len(raw) : db[i + 1] = raw[i]
            /\ SelectSeq(db, NotSep) = raw

C2_Witness ==
    /\ Returned("cofold")
    /\ args.seq = <<"G", "&", "G", "G">>
    /\ engine.fold.structure = <<"(", ".", "(">>
    /\ result.value.dot_bracket = <<"(", "&", ".", "(">>

\* C3: fold, cofold, folded_structure and does_sequence_fold_to reject the
\* empty string with the invalid-input error (ValueError), and no engine call
\* is made before it is raised.
C3_EmptyRejectedBeforeEngine ==
    (/\ pc = "done"
     /\ op \in {"fold", "cofold", "folded_structure", "does_sequence_fold_to"}
     /\ args.seq = <<>>)
        => /\ result.status = "raise"
           /\ result.exc = "ValueError"
           /\ engineCalls = <<>>

C3_Witness ==
    /\ pc = "done"
    /\ op = "does_sequence_fold_to"
    /\ args.seq = <<>>
    /\ result.status = "raise"

\* C4: cofold rejects an input without "&" with the invalid-input error before
\* any engine call, and calls the engine only on inputs with exactly one "&".
C4_ExactlyOneSeparator ==
    (pc = "done" /\ op = "cofold") =>
        /\ ~Contains(args.seq, "&") =>
               /\ result.status = "raise"
               /\ result.exc = "ValueError"
               /\ engineCalls = <<>>
        /\ engineCalls # <<>> => Len(SelectSeq(args.seq, IsSep)) = 1

\* C5: fold(seq, bp_probs=True) returns exactly one triple (i, j, p) for every
\* pair 1 <= i < j <= n whose matrix entry [i-1][j-1] is non-zero, with p that
\* entry, and no other triple: so 1 <= i < j <= n and 0 < p <= 1 in every
\* triple, and a pair that is absent has probability zero.
C5_SparseTriples ==
    (Returned("fold") /\ args.bp_probs) =>
        LET n == Len(args.seq)
            l == result.value.bp_probs
            m == engine.fold.bpp
        IN  /\ \A i \in 1..n, j \in 1..n :
                 i < j =>
                   Cardinality({k \in DOMAIN l : l[k][1] = i /\ l[k][2] = j})
                     = IF m[<<i - 1, j - 1>>] # 0 THEN 1 ELSE 0
            /\ \A k \in DOMAIN l :
                 /\ 1 <= l[k][1] /\ l[k][1] < l[k][2] /\ l[k][2] <= n
                 /\ l[k][3] = m[<<l[k][1] - 1, l[k][2] - 1>>]
                 /\ 0 < l[k][3] /\ l[k][3] <= 100

C5_Witness ==
    /\ Returned("fold")
    /\ args.bp_probs
    /\ Len(args.seq) = 3
    /\ result.value.bp_probs = << <<1, 2, 50>>, <<2, 3, 100>> >>

\* C6: for n_sol >= 1 the returned sequences are the first min(n_sol, number of
\* distinct candidates) distinct candidates of the output in order of first
\* occurrence; the loop stops at the line that supplies the n_sol-th of them,
\* and only accepted candidates are folded.
C6_FirstDistinctThenStop ==
    (Returned("inverse_fold") /\ args.n_sol >= 1) =>
        LET all == FirstOccurrences(Candidates(lines))
            seen == FirstOccurrences(Candidates(SubSeq(lines, 1, examined)))
        IN  /\ ResultSeqs = SubSeq(all, 1, Min(args.n_sol, Len(all)))
            /\ Len(engineCalls) = 1 + 2 * Len(result.value)
            /\ IF Len(all) >= args.n_sol
               THEN /\ Len(seen) = args.n_sol
                    /\ Len(FirstOccurrences(Candidates(
                               SubSeq(lines, 1, examined - 1)))) = args.n_sol - 1
               ELSE examined = Len(lines)

C6_WitnessStop ==
    /\ Returned("inverse_fold")
    /\ args.n_sol = 1
    /\ Len(lines) = 3
    /\ examined = 1

\* an inverse_fold call: the step that leaves "idle" with op inverse_fold
InverseCalled == pc = "idle" /\ op' = "inverse_fold"

LineTaken == pc = "inverse" /\ examined' = examined + 1

\* C9 (as stated): a line that does not split into exactly two fields adds no
\* entry and does not count toward n_sol.
C9_OnlyTwoFieldLines ==
    [][(LineTaken /\ Len(lines[examined + 1]) # 2) =>
           /\ seqs' = seqs
           /\ scores' = scores]_vars

\* C9 (amended): a blank or whitespace-only line adds no entry, folds nothing
\* and does not count toward n_sol; every other line, whatever the number of
\* its fields, is a candidate whose sequence is its first field, accepted
\* unless that sequence was accepted before.
C9_OnlyBlankLinesSkipped ==
    [][LineTaken =>
           LET line == lines[examined + 1] IN
           /\ line = <<>> => /\ seqs' = seqs
                             /\ scores' = scores
                             /\ engineCalls' = engineCalls
                             /\ pc' = "inverse"
           /\ (line # <<>> /\ result'.status # "raise") =>
                  /\ seqs' = IF line[1] \in Range(seqs) THEN seqs
                             ELSE Append(seqs, line[1])
                  /\ Len(scores') = Len(seqs')]_vars

C9_Witness ==
    /\ examined = 3
    /\ lines[2] = <<>>
    /\ Len(lines[3]) \notin {0, 2}
    /\ Len(seqs) = 2
    /\ Len(scores) = 2
    /\ seqs[2] = lines[3][1]

FoldReached ==
    /\ pc = "done"
    /\ op \in {"fold", "cofold"}
    /\ "mfe" \in Range(engineCalls)

FoldResultKept ==
    /\ result.status = "return"
    /\ result.value.ens_defect = 0
    /\ result.value.mfe = engine.fold.energy
    /\ SelectSeq(result.value.dot_bracket, NotSep) = engine.fold.structure

\* C10 (as stated): in fold and cofold, whenever structure and energy were
\* obtained and the ensemble statistic was not, whatever the failure, the
\* result still has the computed dot_bracket and mfe, and ens_defect 0.0.
C10_FailSoftAnyFailure ==
    (FoldReached /\ engine.fold.ens.exc # "none") => FoldResultKept

\* C10 (amended): the fallback covers an AttributeError or a TypeError raised
\* by mean_bp_distance: then the result has the computed dot_bracket and mfe,
\* and ens_defect 0.0; any other exception it raises leaves the operation
\* without a result.
C10_FailSoftAttributeOrType ==
    /\ (FoldReached /\ engine.fold.ens.exc \in {"AttributeError", "TypeError"})
           => FoldResultKept
    /\ (FoldReached
           /\ engine.fold.ens.exc \notin {"none", "AttributeError", "TypeError"})
           => /\ result.status = "raise"
              /\ result.exc = engine.fold.ens.exc

C10_Witness ==
    /\ FoldReached
    /\ op = "cofold"
    /\ engine.fold.ens.exc = "TypeError"
    /\ result.status = "return"
    /\ result.value.dot_bracket = <<"(", "&", ".">>

====
